---- MODULE Spec2Model ----
(***************************************************************************)
(* Model of the mowen-mcp note tools: the document conversion engine       *)
(* (service/api.go: ConvertToMowenFormat, convertTextsToMowenFormat,       *)
(* uploadFileFromURL, generateFileUUID, getFileTypeFromPath), the upload   *)
(* client (UploadPrepare, UploadFile) and the create_note / edit_note      *)
(* tool handlers (service/mowen_tools.go).                                 *)
(*                                                                         *)
(* Go strings whose characters the code inspects (links, file paths) are   *)
(* sequences of one-character strings; opaque strings are TLA+ strings.    *)
(* A nil slice and an empty slice are both <<>>; a nil map and an empty    *)
(* map are both the function with empty domain (they serialise alike       *)
(* under `omitempty`).                                                     *)
(***************************************************************************)
EXTENDS Integers, Sequences, FiniteSets, TLC

VARIABLES
    pc,          \* where the modelled call is: "idle", "textsCall", "textsDone",
                 \* "convert", "done", "panic", "toolDone"
    texts,       \* argument of a direct convertTextsToMowenFormat call
    result,      \* its return value
    blocks,      \* argument `blocks` of ConvertToMowenFormat
    i,           \* 1-based position of the block the loop handles next (Go's i+1)
    doc,         \* local `doc` of ConvertToMowenFormat
    ret,         \* what ConvertToMowenFormat returned: [doc, err]
    calls,       \* requests issued to the remote service so far, oldest first, each
                 \* with the status of its answer
    request,     \* request.Params.Arguments of a create_note / edit_note call
    toolResult,  \* the *mcp.CallToolResult of create_note / edit_note
    saveTask,    \* the goroutines started by create_note (arguments of SaveNoteToSQLite)
    fileUUID,    \* local `fileUUID` of the file branch that ran last ("" before any)
    sqlite,      \* package variables of sqllite.go: sqliteDB with the state of the
                 \* handle it points to, sqliteOnce, sqliteInitErr; and the note table
    ops          \* the goroutines that use the store: where each one is and how
                 \* its last operation ended

vars == <<pc, texts, result, blocks, i, doc, ret, calls, request, toolResult, saveTask,
          fileUUID, sqlite, ops>>

(***************************************************************************)
(* Bounds of the model.                                                    *)
(***************************************************************************)
MaxSpans == 2       \* longest span list given to convertTextsToMowenFormat
MaxBlocks == 3      \* longest block list given to ConvertToMowenFormat
MaxParagraphs == 2  \* longest paragraph list given to create_note / edit_note

(***************************************************************************)
(* Strings as character sequences.                                         *)
(***************************************************************************)
EmptyStr == <<>>

\* strings.HasPrefix(s, prefix)
HasPrefix(s, prefix) ==
    /\ Len(s) >= Len(prefix)
    /\ SubSeq(s, 1, Len(prefix)) = prefix

LinkHTTPS == <<"h", "t", "t", "p", "s", ":", "/", "/", "x">>
LinkHTTP  == <<"h", "t", "t", "p", ":", "/", "/", "x">>
LinkFTP   == <<"f", "t", "p", ":", "/", "/", "x">>
LinkHTTPX == <<"h", "t", "t", "p", "x", ":", "/", "/", "x">>

Links == {EmptyStr, LinkHTTPS, LinkHTTP, LinkFTP, LinkHTTPX}

(***************************************************************************)
(* Text/mark conversion (api.go: convertTextsToMowenFormat).               *)
(***************************************************************************)
NoAttrs == [k \in {} |-> ""]

\* TextNode: the input span
TextNode == [Text : {"", "a"}, Bold : BOOLEAN, Highlight : BOOLEAN, Link : Links]

\* MarkNode{Type: t} and MarkNode{Type: "link", Attrs: {"href": link}}
MarkNode(t, attrs) == [type |-> t, attrs |-> attrs]

\* A span's marks with the link mark appended first.
Marks_LinkFirst(text) ==
    LET m0 == <<>>
        m1 == IF text.Link /= EmptyStr
              THEN Append(m0, MarkNode("link", [href |-> text.Link])) ELSE m0
        m2 == IF text.Bold THEN Append(m1, MarkNode("bold", NoAttrs)) ELSE m1
        m3 == IF text.Highlight THEN Append(m2, MarkNode("highlight", NoAttrs)) ELSE m2
    IN  m3

\* The three conditional appends to mowenText.Marks, in program order.
Marks(text) ==
    LET m0 == <<>>
        m1 == IF text.Bold THEN Append(m0, MarkNode("bold", NoAttrs)) ELSE m0
        m2 == IF text.Highlight THEN Append(m1, MarkNode("highlight", NoAttrs)) ELSE m1
        m3 == IF text.Link /= EmptyStr
              THEN Append(m2, MarkNode("link", [href |-> text.Link])) ELSE m2
    IN  m3

\* MowenTextNode built for one span
MowenTextNode(text) == [type |-> "text", text |-> text.Text, marks |-> Marks(text)]

RECURSIVE ConvertTextsFrom(_, _, _)
\* The loop `for _, text := range texts`: k is the next span, acc is `result`.
ConvertTextsFrom(ts, k, acc) ==
    IF k > Len(ts) THEN acc
    ELSE ConvertTextsFrom(ts, k + 1, Append(acc, MowenTextNode(ts[k])))

RECURSIVE ConvertTextsSkipEmptyFrom(_, _, _)
\* The loop with spans of empty text skipped.
ConvertTextsSkipEmptyFrom(ts, k, acc) ==
    IF k > Len(ts) THEN acc
    ELSE ConvertTextsSkipEmptyFrom(ts, k + 1,
            IF ts[k].Text = "" THEN acc ELSE Append(acc, MowenTextNode(ts[k])))

convertTexts_SkipEmpty(ts) == ConvertTextsSkipEmptyFrom(ts, 1, <<>>)

convertTextsToMowenFormat(ts) == ConvertTextsFrom(ts, 1, <<>>)

(***************************************************************************)
(* Span lists of length at most n.                                         *)
(***************************************************************************)
SeqsUpTo(S, n) == UNION {[1..k -> S] : k \in 0..n}

(***************************************************************************)
(* Direct calls of convertTextsToMowenFormat.                              *)
(***************************************************************************)
NoDoc == [type |-> "", content |-> <<>>]
NoRet == [doc |-> NoDoc, err |-> <<>>]
NoToolResult == [ok |-> FALSE, text |-> <<>>]

\* sqllite.go before any call: sqliteDB nil, sqliteOnce unused, sqliteInitErr
\* nil; runs counts the executions of the function given to sqliteOnce.Do
NoStore == [db |-> "nil", once |-> FALSE, initErr |-> <<>>, runs |-> 0, rows |-> <<>>]
Procs == {"main", "save", "search", "close"}
NoOps == [p \in Procs |-> [pc |-> "idle", out |-> "none"]]
NoArg == [kind |-> "absent", value |-> <<>>]
NoRequest == [tool |-> "", paragraphs |-> NoArg, auto_publish |-> FALSE, tags |-> NoArg,
              note_id |-> ""]

InitTexts ==
    /\ pc = "textsCall"
    /\ texts \in SeqsUpTo(TextNode, MaxSpans)
    /\ result = <<>>
    /\ blocks = <<>>
    /\ i = 0
    /\ doc = NoDoc
    /\ ret = NoRet
    /\ calls = <<>>
    /\ request = NoRequest
    /\ toolResult = NoToolResult
    /\ saveTask = <<>>
    /\ fileUUID = ""
    /\ sqlite = NoStore
    /\ ops = NoOps

ConvertTextsCall ==
    /\ pc = "textsCall"
    /\ result' = convertTextsToMowenFormat(texts)
    /\ pc' = "textsDone"
    /\ UNCHANGED <<texts, blocks, i, doc, ret, calls, request, toolResult, saveTask,
                 fileUUID>>
    /\ UNCHANGED <<sqlite, ops>>

NextTexts == ConvertTextsCall

SpecTexts == InitTexts /\ [][NextTexts]_vars

(***************************************************************************)
(* File paths (path/filepath, strings.ToLower).                            *)
(***************************************************************************)
PathPNG    == <<"a", ".", "p", "n", "g">>
PathMP3    == <<"b", ".", "M", "P", "3">>
PathNoExt  == <<"c">>
PathPDFURL == <<"u", "/", "d", ".", "p", "d", "f">>
PathTXT    == <<"e", ".", "t", "x", "t">>

RECURSIVE ExtFrom(_, _)
\* filepath.Ext: the suffix from the last dot of the last path element
ExtFrom(p, k) ==
    IF k < 1 THEN EmptyStr
    ELSE IF p[k] = "/" THEN EmptyStr
    ELSE IF p[k] = "." THEN SubSeq(p, k, Len(p))
    ELSE ExtFrom(p, k - 1)

Ext(p) == ExtFrom(p, Len(p))

RECURSIVE StripTrailingSlashes(_)
StripTrailingSlashes(p) ==
    IF Len(p) > 0 /\ p[Len(p)] = "/" THEN StripTrailingSlashes(SubSeq(p, 1, Len(p) - 1))
    ELSE p

RECURSIVE LastSlash(_, _)
LastSlash(p, k) == IF k < 1 THEN 0 ELSE IF p[k] = "/" THEN k ELSE LastSlash(p, k - 1)

\* filepath.Base
Base(p) ==
    IF p = EmptyStr THEN <<".">>
    ELSE LET q == StripTrailingSlashes(p)
         IN  IF q = EmptyStr THEN <<"/">>
             ELSE SubSeq(q, LastSlash(q, Len(q)) + 1, Len(q))

\* strings.ToLower on one character (the upper-case letters of the model's paths)
LowerChar(c) ==
    CASE c = "M" -> "m" [] c = "P" -> "p" [] c = "N" -> "n" [] c = "G" -> "g"
      [] c = "D" -> "d" [] c = "F" -> "f" [] OTHER -> c

ToLower(p) == [k \in DOMAIN p |-> LowerChar(p[k])]

ImageExts == { <<".", "j", "p", "g">>, <<".", "j", "p", "e", "g">>, <<".", "p", "n", "g">>,
               <<".", "g", "i", "f">>, <<".", "b", "m", "p">>, <<".", "w", "e", "b", "p">> }
AudioExts == { <<".", "m", "p", "3">>, <<".", "w", "a", "v">>, <<".", "a", "a", "c">>,
               <<".", "f", "l", "a", "c">>, <<".", "o", "g", "g">>, <<".", "m", "4", "a">> }
PdfExts   == { <<".", "p", "d", "f">> }

\* getFileTypeFromPath comparing the extension as written, without ToLower.
getFileTypeFromPath_CaseSensitive(filePath) ==
    LET ext == Ext(filePath)
    IN  IF ext \in ImageExts THEN [code |-> 1, err |-> <<>>]
        ELSE IF ext \in AudioExts THEN [code |-> 2, err |-> <<>>]
        ELSE IF ext \in PdfExts THEN [code |-> 3, err |-> <<>>]
        ELSE [code |-> 0, err |-> <<"unsupported file type">>]

\* getFileTypeFromPath: (code, error)
getFileTypeFromPath(filePath) ==
    LET ext == ToLower(Ext(filePath))
    IN  IF ext \in ImageExts THEN [code |-> 1, err |-> <<>>]
        ELSE IF ext \in AudioExts THEN [code |-> 2, err |-> <<>>]
        ELSE IF ext \in PdfExts THEN [code |-> 3, err |-> <<>>]
        ELSE [code |-> 0, err |-> <<"unsupported file type">>]

(***************************************************************************)
(* The remote service's answers (APIResponse, transport errors).           *)
(***************************************************************************)
\* APIResponse.Body: nil, or the parsed JSON object
Body(isNil, fields) == [isNil |-> isNil, fields |-> fields]
BodyNil         == Body(TRUE, NoAttrs)
BodyEmptyObject == Body(FALSE, NoAttrs)
BodyFileNoId    == Body(FALSE, [file |-> NoAttrs])
BodyFileId(id)  == Body(FALSE, [file |-> [fileId |-> id]])

FileIds == {"f1", ""}
Bodies == {BodyNil, BodyEmptyObject, BodyFileNoId} \cup {BodyFileId(id) : id \in FileIds}

\* what c.Client.Do and the body read give: a transport error, or a status and a body
TransportErr == [kind |-> "transportErr", status |-> 0, body |-> BodyNil]
Http(status, body) == [kind |-> "http", status |-> status, body |-> body]

JSONResponses ==
    {TransportErr, Http(500, BodyNil)} \cup {Http(200, b) : b \in Bodies}
UploadResponses ==
    {TransportErr, Http(500, BodyNil)} \cup {Http(s, b) : s \in {200, 204}, b \in Bodies}

\* the prepare endpoint's answer: RawBody is not JSON, or a JSON object with this form
FormFull       == [endpoint |-> "oss", policy |-> "s1"]
FormNoEndpoint == [policy |-> "s1"]
RawForm(form) == [json |-> TRUE, form |-> form]
RawBad        == [json |-> FALSE, form |-> NoAttrs]
PrepareHttp(status, raw) == [kind |-> "http", status |-> status, raw |-> raw]
PrepareTransportErr == [kind |-> "transportErr", status |-> 0, raw |-> RawBad]
PrepareResponses ==
    {PrepareTransportErr, PrepareHttp(500, RawBad), PrepareHttp(204, RawForm(FormFull)),
     PrepareHttp(200, RawBad)}
    \cup {PrepareHttp(200, RawForm(f)) : f \in {NoAttrs, FormNoEndpoint, FormFull}}

\* What the environment answers during one local-path resolution: the prepare
\* answer, whether os.Open succeeds and the upload answer. An answer that is
\* never asked for (the call before it failed) is left at a fixed value; the
\* last answer set is an upload that would succeed behind a prepare answered 204.
LocalFlowAnswers ==
    {[prepare |-> p, fileOpens |-> FALSE, upload |-> TransportErr] : p \in PrepareResponses}
    \cup {[prepare |-> PrepareHttp(200, RawForm(FormFull)), fileOpens |-> TRUE, upload |-> u] :
             u \in UploadResponses}
    \cup {[prepare |-> PrepareHttp(204, RawForm(FormFull)), fileOpens |-> TRUE,
           upload |-> Http(200, BodyFileId("f1"))]}

\* The remote service opens a new upload session for every prepare request it
\* receives and names it in the policy field of the form it returns: the
\* session is the ordinal of that prepare request among those received so far.
SessionOf(log) == ToString(1 + Cardinality({k \in DOMAIN log : log[k].op = "prepare"}))
InSession(resp, session) ==
    IF resp.kind = "http" /\ resp.raw.json /\ "policy" \in DOMAIN resp.raw.form
    THEN [resp EXCEPT !.raw.form.policy = session]
    ELSE resp

\* one request received by the remote service; block is the position of the
\* block being converted when it was issued (0 outside a conversion)
Request(op, block, payload) == [op |-> op, block |-> block, payload |-> payload]

\* a request in the log of calls, with the status it was answered with
\* (0 when the transport failed)
Answered(req, resp) == req @@ [status |-> resp.status]

\* what a resolver call gives back: identifier, error, whether it panicked,
\* and the requests it issued
Outcome(id, err, panicked, issued) ==
    [id |-> id, err |-> err, panicked |-> panicked, issued |-> issued]

(***************************************************************************)
(* Media Resolver, remote-URL flow (api.go: uploadFileFromURL).            *)
(***************************************************************************)
\* The switch on fileTypeStr with every kind sent as an image.
APIFileType_AllImage(fileTypeStr) ==
    IF fileTypeStr \in {"image", "audio", "pdf"} THEN 1 ELSE 0

\* the switch on fileTypeStr: 0 stands for the default branch
APIFileType(fileTypeStr) ==
    CASE fileTypeStr = "image" -> 1
      [] fileTypeStr = "audio" -> 2
      [] fileTypeStr = "pdf" -> 3
      [] OTHER -> 0

uploadFileFromURL(pos, fileURL, fileTypeStr, fileName, resp) ==
    LET apiFileType == APIFileType(fileTypeStr)
        req == Answered(Request("uploadByURL", pos,
                                [fileType |-> apiFileType, url |-> fileURL,
                                 fileName |-> fileName]),
                        resp)
        fields == resp.body.fields
    IN  IF apiFileType = 0
        THEN Outcome("", <<"unsupported file type">>, FALSE, <<>>)
        ELSE IF resp.kind = "transportErr"
        THEN Outcome("", <<"upload file via URL failed", "send request failed">>, FALSE, <<req>>)
        ELSE IF resp.status /= 200
        THEN Outcome("", <<"upload failed, status code", ToString(resp.status)>>, FALSE, <<req>>)
        \* uploadResp["file"].(map[string]interface{}) panics without a "file" object
        ELSE IF "file" \notin DOMAIN fields
        THEN Outcome("", <<>>, TRUE, <<req>>)
        \* ["fileId"].(string) is the two-value form
        ELSE IF "fileId" \notin DOMAIN fields.file
        THEN Outcome("", <<"upload response lacks fileId">>, FALSE, <<req>>)
        ELSE Outcome(fields.file.fileId, <<>>, FALSE, <<req>>)

(***************************************************************************)
(* Media Resolver, local-path flow (UploadPrepare, UploadFile,             *)
(* generateFileUUID).                                                      *)
(***************************************************************************)
\* UploadPrepare without the test of the status code.
UploadPrepare_AnyStatus(resp) ==
    IF resp.kind = "transportErr"
    THEN [form |-> NoAttrs, err |-> <<"get upload authorization failed", "send request failed">>]
    ELSE IF ~resp.raw.json
    THEN [form |-> NoAttrs, err |-> <<"parse upload authorization response failed">>]
    ELSE [form |-> resp.raw.form, err |-> <<>>]

\* UploadPrepare handing out a form kept from an earlier answer instead of
\* the one in this response.
UploadPrepare_StaleForm(resp) ==
    IF resp.kind = "transportErr"
    THEN [form |-> NoAttrs, err |-> <<"get upload authorization failed", "send request failed">>]
    ELSE IF resp.status /= 200
    THEN [form |-> NoAttrs,
          err |-> <<"upload authorization request failed, status code", ToString(resp.status)>>]
    ELSE IF ~resp.raw.json
    THEN [form |-> NoAttrs, err |-> <<"parse upload authorization response failed">>]
    ELSE [form |-> FormFull, err |-> <<>>]

\* UploadPrepare: (form, error); the request is issued in every case
UploadPrepare(resp) ==
    IF resp.kind = "transportErr"
    THEN [form |-> NoAttrs, err |-> <<"get upload authorization failed", "send request failed">>]
    ELSE IF resp.status /= 200
    THEN [form |-> NoAttrs,
          err |-> <<"upload authorization request failed, status code", ToString(resp.status)>>]
    ELSE IF ~resp.raw.json
    THEN [form |-> NoAttrs, err |-> <<"parse upload authorization response failed">>]
    ELSE [form |-> resp.raw.form, err |-> <<>>]

\* UploadFile: (response, error, whether the multipart request was sent)
UploadFile(form, fileOpens, resp) ==
    IF "endpoint" \notin DOMAIN form
    THEN [resp |-> TransportErr, err |-> <<"form lacks endpoint field">>, sent |-> FALSE]
    ELSE IF ~fileOpens
    THEN [resp |-> TransportErr, err |-> <<"open file failed">>, sent |-> FALSE]
    ELSE IF resp.kind = "transportErr"
    THEN [resp |-> TransportErr, err |-> <<"send upload request failed">>, sent |-> TRUE]
    ELSE [resp |-> resp, err |-> <<>>, sent |-> TRUE]

generateFileUUID(pos, filePath, prepareResp, fileOpens, uploadResp) ==
    LET ft == getFileTypeFromPath(filePath)
        prepareReq == Answered(Request("prepare", pos,
                                       [fileType |-> ft.code, fileName |-> Base(filePath)]),
                               prepareResp)
        prep == UploadPrepare(prepareResp)
        up == UploadFile(prep.form, fileOpens, uploadResp)
        uploadReq == Answered(Request("upload", pos,
                                      [form |-> prep.form, filePath |-> filePath]),
                              uploadResp)
        issued == IF up.sent THEN <<prepareReq, uploadReq>> ELSE <<prepareReq>>
        fields == up.resp.body.fields
    IN  IF ft.err /= <<>>
        THEN Outcome("", <<"cannot determine file type">> \o ft.err, FALSE, <<>>)
        ELSE IF prep.err /= <<>>
        THEN Outcome("", <<"get upload authorization failed">> \o prep.err, FALSE, <<prepareReq>>)
        ELSE IF up.err /= <<>>
        THEN Outcome("", <<"file upload failed">> \o up.err, FALSE, issued)
        ELSE IF up.resp.status /= 200 /\ up.resp.status /= 204
        THEN Outcome("", <<"file upload failed, status code", ToString(up.resp.status)>>,
                     FALSE, issued)
        \* Body == nil leaves fileUUID empty
        ELSE IF up.resp.body.isNil
        THEN Outcome("", <<"no file UUID in upload response">>, FALSE, issued)
        \* Body["file"].(map[string]interface{})["fileId"].(string): both one-value forms
        ELSE IF "file" \notin DOMAIN fields \/ "fileId" \notin DOMAIN fields.file
        THEN Outcome("", <<>>, TRUE, issued)
        ELSE IF fields.file.fileId = ""
        THEN Outcome("", <<"no file UUID in upload response">>, FALSE, issued)
        ELSE Outcome(fields.file.fileId, <<>>, FALSE, issued)

(***************************************************************************)
(* Block conversion (api.go: ConvertToMowenFormat).                        *)
(***************************************************************************)
\* ContentBlock
ContentBlock(type, ts, noteID, fileType, sourceType, sourcePath, metadata) ==
    [Type |-> type, Texts |-> ts, NoteID |-> noteID, FileType |-> fileType,
     SourceType |-> sourceType, SourcePath |-> sourcePath, Metadata |-> metadata]

\* MowenContentNode
MowenContentNode(type, content, attrs) == [type |-> type, content |-> content, attrs |-> attrs]

\* the node appended when i > 0: MowenContentNode{Type: "paragraph"}
Separator == MowenContentNode("paragraph", <<>>, NoAttrs)

MediaKinds == {"image", "audio", "pdf"}

\* The dispatch with `quote` blocks falling into the default branch.
BlockKind_QuoteAsDefault(block) ==
    CASE block.Type = "note" -> "note"
      [] block.Type = "file" ->
            IF block.FileType \in MediaKinds THEN block.FileType ELSE "none"
      [] OTHER -> "paragraph"

\* The branch the two nested switches take: the kind of the node the block
\* gives, "none" for a file block whose FileType matches no case.
BlockKind(block) ==
    CASE block.Type = "quote" -> "quote"
      [] block.Type = "note" -> "note"
      [] block.Type = "file" ->
            IF block.FileType \in MediaKinds THEN block.FileType ELSE "none"
      [] OTHER -> "paragraph"

\* doc.Content once the loop body has appended the separator of block i
WithSeparator == IF i > 1 THEN Append(doc.content, Separator) ELSE doc.content

\* the loop body appended `node` and the loop goes on to the next block
Emit(node, issued) ==
    /\ doc' = [doc EXCEPT !.content = Append(WithSeparator, node)]
    /\ i' = i + 1
    /\ calls' = calls \o issued
    /\ UNCHANGED <<pc, ret>>

\* The failure branch without its return: the loop goes on to the next block.
ReturnFailure_AndContinue(err, issued) ==
    /\ doc' = [doc EXCEPT !.content = WithSeparator]
    /\ ret' = [doc |-> doc', err |-> err]
    /\ calls' = calls \o issued
    /\ i' = i + 1
    /\ UNCHANGED pc

\* `return doc, fmt.Errorf(...)` inside the loop body
ReturnFailure(err, issued) ==
    /\ doc' = [doc EXCEPT !.content = WithSeparator]
    /\ ret' = [doc |-> doc', err |-> err]
    /\ calls' = calls \o issued
    /\ pc' = "done"
    /\ UNCHANGED i

\* a type assertion panicked inside the resolver: nothing recovers it
Panic(issued) ==
    /\ doc' = [doc EXCEPT !.content = WithSeparator]
    /\ calls' = calls \o issued
    /\ pc' = "panic"
    /\ UNCHANGED <<i, ret>>

\* fmt.Errorf wrappers of the three file branches
URLFailure(fileType) ==
    CASE fileType = "image" -> "upload image file via URL failed"
      [] fileType = "audio" -> "upload audio file via URL failed"
      [] OTHER -> "upload PDF file via URL failed"

LocalFailure(fileType) ==
    CASE fileType = "image" -> "upload local image file failed"
      [] fileType = "audio" -> "upload local audio file failed"
      [] OTHER -> "upload local PDF file failed"

\* the fileName argument of uploadFileFromURL
URLFileName(block) ==
    IF block.FileType = "pdf" THEN Base(block.SourcePath) ELSE block.SourcePath

\* The audio branch's key choice without the renaming of show_note.
AttrKey_Unchanged(fileType, key) == key

\* the key a metadata entry is stored under
AttrKey(fileType, key) == IF fileType = "audio" /\ key = "show_note" THEN "show-note" ELSE key

\* the key of the identifier attribute
UUIDKey(fileType) == IF fileType = "audio" THEN "audio-uuid" ELSE "uuid"

\* The attribute mapping with the identifier written after the metadata loop.
MediaAttrs_IdentifierLast(block, id) ==
    LET ft == block.FileType
        md == block.Metadata
        keys == {UUIDKey(ft)} \cup {AttrKey(ft, k) : k \in DOMAIN md}
        stored(K) == {md[k] : k \in {x \in DOMAIN md : AttrKey(ft, x) = K}}
        values == {id} \cup {md[k] : k \in DOMAIN md}
    IN  {a \in [keys -> values] :
            \A K \in keys : IF K = UUIDKey(ft) THEN a[K] = id ELSE a[K] \in stored(K)}

\* The attribute mappings the metadata loop can leave: attrs starts as
\* {UUIDKey: id} and every metadata entry is stored under its AttrKey,
\* in the unspecified order of a Go map range (two entries stored under one
\* key leave either value).
MediaAttrs(block, id) ==
    LET ft == block.FileType
        md == block.Metadata
        keys == {UUIDKey(ft)} \cup {AttrKey(ft, k) : k \in DOMAIN md}
        stored(K) == {md[k] : k \in {x \in DOMAIN md : AttrKey(ft, x) = K}}
        values == {id} \cup {md[k] : k \in DOMAIN md}
    IN  {a \in [keys -> values] :
            \A K \in keys : IF stored(K) = {} THEN a[K] = id ELSE a[K] \in stored(K)}

ConvertQuote ==
    /\ pc = "convert" /\ i <= Len(blocks)
    /\ BlockKind(blocks[i]) = "quote"
    /\ Emit(MowenContentNode("quote", convertTextsToMowenFormat(blocks[i].Texts), NoAttrs), <<>>)
    /\ UNCHANGED <<texts, result, blocks, request, toolResult, saveTask, fileUUID>>
    /\ UNCHANGED <<sqlite, ops>>

\* The note branch with the identifier stored under another attribute key.
ConvertNote_WrongAttrKey ==
    /\ pc = "convert" /\ i <= Len(blocks)
    /\ BlockKind(blocks[i]) = "note"
    /\ Emit(MowenContentNode("note", <<>>, ("note-uuid" :> blocks[i].NoteID)), <<>>)
    /\ UNCHANGED <<texts, result, blocks, request, toolResult, saveTask, fileUUID>>
    /\ UNCHANGED <<sqlite, ops>>

ConvertNote ==
    /\ pc = "convert" /\ i <= Len(blocks)
    /\ BlockKind(blocks[i]) = "note"
    /\ Emit(MowenContentNode("note", <<>>, [uuid |-> blocks[i].NoteID]), <<>>)
    /\ UNCHANGED <<texts, result, blocks, request, toolResult, saveTask, fileUUID>>
    /\ UNCHANGED <<sqlite, ops>>

ConvertParagraph ==
    /\ pc = "convert" /\ i <= Len(blocks)
    /\ BlockKind(blocks[i]) = "paragraph"
    /\ Emit(MowenContentNode("paragraph", convertTextsToMowenFormat(blocks[i].Texts), NoAttrs),
            <<>>)
    /\ UNCHANGED <<texts, result, blocks, request, toolResult, saveTask, fileUUID>>
    /\ UNCHANGED <<sqlite, ops>>

\* the rest of a file branch once the resolver has answered
AfterResolve(block, out, failure) ==
    /\ fileUUID' = out.id
    /\ IF out.panicked THEN Panic(out.issued)
       ELSE IF out.err /= <<>> THEN ReturnFailure(<<failure>> \o out.err, out.issued)
       ELSE \E attrs \in MediaAttrs(block, out.id) :
               Emit(MowenContentNode(block.FileType, <<>>, attrs), out.issued)

\* a file block of kind image, audio or pdf with SourceType "url"
ConvertFileFromURL ==
    /\ pc = "convert" /\ i <= Len(blocks)
    /\ BlockKind(blocks[i]) \in MediaKinds
    /\ blocks[i].SourceType = "url"
    /\ \E resp \in JSONResponses :
          AfterResolve(blocks[i],
                       uploadFileFromURL(i, blocks[i].SourcePath, blocks[i].FileType,
                                         URLFileName(blocks[i]), resp),
                       URLFailure(blocks[i].FileType))
    /\ UNCHANGED <<texts, result, blocks, request, toolResult, saveTask>>
    /\ UNCHANGED <<sqlite, ops>>

\* a file block of kind image, audio or pdf with any other SourceType
ConvertFileFromPath ==
    /\ pc = "convert" /\ i <= Len(blocks)
    /\ BlockKind(blocks[i]) \in MediaKinds
    /\ blocks[i].SourceType /= "url"
    /\ \E env \in LocalFlowAnswers :
          AfterResolve(blocks[i],
                       generateFileUUID(i, blocks[i].SourcePath,
                                        InSession(env.prepare, SessionOf(calls)),
                                        env.fileOpens, env.upload),
                       LocalFailure(blocks[i].FileType))
    /\ UNCHANGED <<texts, result, blocks, request, toolResult, saveTask>>
    /\ UNCHANGED <<sqlite, ops>>

\* The fall-through of the FileType switch with the separator left out.
ConvertFileOther_NoSeparator ==
    /\ pc = "convert" /\ i <= Len(blocks)
    /\ BlockKind(blocks[i]) = "none"
    /\ i' = i + 1
    /\ UNCHANGED <<doc, pc, ret, calls, texts, result, blocks, request, toolResult, saveTask,
                   fileUUID>>
    /\ UNCHANGED <<sqlite, ops>>

\* a file block whose FileType matches no case: only the separator is appended
ConvertFileOther ==
    /\ pc = "convert" /\ i <= Len(blocks)
    /\ BlockKind(blocks[i]) = "none"
    /\ doc' = [doc EXCEPT !.content = WithSeparator]
    /\ i' = i + 1
    /\ UNCHANGED <<pc, ret, calls, texts, result, blocks, request, toolResult, saveTask,
                 fileUUID>>
    /\ UNCHANGED <<sqlite, ops>>

\* `return doc, nil` after the loop
ConvertReturn ==
    /\ pc = "convert" /\ i > Len(blocks)
    /\ ret' = [doc |-> doc, err |-> <<>>]
    /\ pc' = "done"
    /\ UNCHANGED <<doc, i, calls, texts, result, blocks, request, toolResult, saveTask,
                 fileUUID>>
    /\ UNCHANGED <<sqlite, ops>>

(***************************************************************************)
(* The block lists given to ConvertToMowenFormat.                          *)
(***************************************************************************)
Span(text, bold, highlight, link) ==
    [Text |-> text, Bold |-> bold, Highlight |-> highlight, Link |-> link]

TextsMarked == <<Span("a", TRUE, FALSE, LinkHTTPS), Span("", FALSE, TRUE, EmptyStr)>>

TextBlock(type, ts) == ContentBlock(type, ts, "", "", "", EmptyStr, NoAttrs)
NoteBlock(noteID) == ContentBlock("note", <<>>, noteID, "", "", EmptyStr, NoAttrs)
FileBlock(fileType, sourceType, sourcePath, metadata) ==
    ContentBlock("file", <<>>, "", fileType, sourceType, sourcePath, metadata)

Blocks ==
    {TextBlock(t, ts) : t \in {"", "quote"}, ts \in {<<>>, TextsMarked}}
    \cup {TextBlock("heading", TextsMarked), NoteBlock("abc123")}
    \cup {FileBlock("image", "url", PathPNG, NoAttrs),
          FileBlock("pdf", "url", PathPDFURL, NoAttrs),
          FileBlock("audio", "local", PathMP3, NoAttrs),
          FileBlock("image", "local", PathNoExt, NoAttrs),
          FileBlock("image", "ftp", PathPNG, NoAttrs),
          FileBlock("video", "url", PathPNG, NoAttrs),
          FileBlock("", "local", PathPNG, NoAttrs)}

Init ==
    /\ pc = "convert"
    /\ blocks \in SeqsUpTo(Blocks, MaxBlocks)
    /\ i = 1
    /\ doc = [type |-> "doc", content |-> <<>>]
    /\ ret = NoRet
    /\ calls = <<>>
    /\ texts = <<>>
    /\ result = <<>>
    /\ request = NoRequest
    /\ toolResult = NoToolResult
    /\ saveTask = <<>>
    /\ fileUUID = ""
    /\ sqlite = NoStore
    /\ ops = NoOps

Next ==
    \/ ConvertQuote
    \/ ConvertNote
    \/ ConvertParagraph
    \/ ConvertFileFromURL
    \/ ConvertFileFromPath
    \/ ConvertFileOther
    \/ ConvertReturn

Spec == Init /\ [][Next]_vars

(***************************************************************************)
(* Block lists of note references and media blocks: declared kinds against *)
(* path extensions on the local flow, caller metadata on the URL flow.     *)
(***************************************************************************)
MaxMediaBlocks == 2

MetaShowNote   == [show_note |-> "hi"]
MetaShowTitle  == [show_note |-> "hi", title |-> "t"]
MetaUUID       == [uuid |-> "evil"]
MetaAudioUUID  == ("audio-uuid" :> "evil")
MetaBothShow   == ("show_note" :> "a") @@ ("show-note" :> "b")
Metadatas == {MetaShowNote, MetaUUID, MetaAudioUUID, MetaBothShow}

NoteIDs == {"abc123", ""}

MediaBlocks ==
    {NoteBlock(id) : id \in NoteIDs}
    \cup {FileBlock(ft, "local", path, NoAttrs) :
             ft \in {"image", "audio"}, path \in {PathPNG, PathMP3, PathNoExt, PathPDFURL}}
    \cup {FileBlock("pdf", "local", PathPDFURL, NoAttrs),
          FileBlock("pdf", "local", PathMP3, NoAttrs),
          FileBlock("audio", "local", PathTXT, NoAttrs)}
    \cup {FileBlock("audio", "url", PathPNG, md) : md \in Metadatas}
    \cup {FileBlock("image", "url", PathPNG, MetaUUID),
          FileBlock("image", "url", PathPNG, MetaShowNote),
          FileBlock("pdf", "url", PathPNG, MetaUUID)}
    \cup {FileBlock(ft, "url", PathPDFURL, NoAttrs) : ft \in MediaKinds}
    \cup {FileBlock("audio", "local", PathMP3, MetaShowTitle),
          FileBlock("video", "local", PathPNG, MetaShowNote),
          TextBlock("", TextsMarked), TextBlock("quote", <<>>)}

InitMedia ==
    /\ pc = "convert"
    /\ blocks \in SeqsUpTo(MediaBlocks, MaxMediaBlocks)
    /\ i = 1
    /\ doc = [type |-> "doc", content |-> <<>>]
    /\ ret = NoRet
    /\ calls = <<>>
    /\ texts = <<>>
    /\ result = <<>>
    /\ request = NoRequest
    /\ toolResult = NoToolResult
    /\ saveTask = <<>>
    /\ fileUUID = ""
    /\ sqlite = NoStore
    /\ ops = NoOps

SpecMedia == InitMedia /\ [][Next]_vars

(***************************************************************************)
(* The create_note and edit_note tools (mowen_tools.go).                   *)
(***************************************************************************)
RECURSIVE ValidateTextsFrom(_, _, _)
\* the inner loop of validateRichNoteParagraphs over para.Texts; the messages
\* name the ordinals i+1 and j+1
ValidateTextsFrom(ordinal, ts, j) ==
    IF j > Len(ts) THEN <<>>
    ELSE IF ts[j].Text = ""
    THEN <<"text field of text node must not be empty", ToString(ordinal), ToString(j)>>
    ELSE IF ts[j].Link /= EmptyStr /\ ~HasPrefix(ts[j].Link, <<"h", "t", "t", "p">>)
    THEN <<"link of text node must be a valid URL", ToString(ordinal), ToString(j)>>
    ELSE ValidateTextsFrom(ordinal, ts, j + 1)

RECURSIVE ValidateParagraphsFrom(_, _)
\* the outer loop of validateRichNoteParagraphs
ValidateParagraphsFrom(paragraphs, k) ==
    IF k > Len(paragraphs) THEN <<>>
    ELSE LET para == paragraphs[k]
             inner == ValidateTextsFrom(k, para.Texts, 1)
         IN  IF para.Type /= "" /\ para.Type /= "paragraph" /\ para.Type /= "quote"
             THEN <<"paragraph type must be paragraph or quote", ToString(k)>>
             ELSE IF Len(para.Texts) = 0
             THEN <<"texts field of paragraph must not be empty", ToString(k)>>
             ELSE IF inner /= <<>> THEN inner
             ELSE ValidateParagraphsFrom(paragraphs, k + 1)

\* validateRichNoteParagraphs: <<>> stands for nil
validateRichNoteParagraphs(paragraphs) ==
    IF Len(paragraphs) = 0 THEN <<"paragraph list must not be empty">>
    ELSE ValidateParagraphsFrom(paragraphs, 1)

\* Paragraph
Paragraph(ts, type) == [Texts |-> ts, Type |-> type]

\* The NoteAtom of one text node, marks in the order bold, highlight, link.
\* Its Text is the pointer &textNode.Text to the range variable: `shown` is the
\* span that variable holds when the payload is serialised.
TextAtom(textNode, shown) ==
    LET m0 == <<>>
        m1 == IF textNode.Bold THEN Append(m0, MarkNode("bold", NoAttrs)) ELSE m0
        m2 == IF textNode.Highlight THEN Append(m1, MarkNode("highlight", NoAttrs)) ELSE m1
        m3 == IF textNode.Link /= EmptyStr
              THEN Append(m2, MarkNode("link", [href |-> textNode.Link])) ELSE m2
    IN  [type |-> "text", text |-> shown.Text, marks |-> m3]

\* The NoteAtom of one paragraph. freshLoopVar tells whether the build gives
\* each iteration its own range variable (Go 1.22 on) or one per loop (before),
\* where every pointer taken in the loop ends on the last span.
ParagraphAtom(para, freshLoopVar) ==
    MowenContentNode(IF para.Type /= "" THEN para.Type ELSE "paragraph",
                     [j \in DOMAIN para.Texts |->
                         TextAtom(para.Texts[j],
                                  IF freshLoopVar THEN para.Texts[j]
                                  ELSE para.Texts[Len(para.Texts)])],
                     NoAttrs)

\* the root NoteAtom built by CreateNote
NoteBody(paragraphs, freshLoopVar) ==
    [type |-> "doc",
     content |-> [k \in DOMAIN paragraphs |-> ParagraphAtom(paragraphs[k], freshLoopVar)]]

\* `tags` after the optional JSON parse: nil, or the parsed list
ParsedTags(arg) == IF arg.kind = "json" THEN arg.value ELSE <<>>

ToolText(ok, text) == [ok |-> ok, text |-> text]

\* the note identifier read from the create response
NoteIDOf(resp) ==
    IF ~resp.body.isNil /\ "noteId" \in DOMAIN resp.body.fields /\ resp.body.fields.noteId /= ""
    THEN resp.body.fields.noteId
    ELSE "unknown ID"

NoteResponses ==
    {TransportErr, Http(500, BodyNil), Http(200, BodyNil),
     Http(200, Body(FALSE, [noteId |-> "n1"]))}

\* the handler ends with this result and nothing else changes
ToolReturns(ok, text) ==
    /\ toolResult' = ToolText(ok, text)
    /\ pc' = "toolDone"

CreateNote ==
    /\ pc = "idle" /\ request.tool = "create_note"
    /\ \E clientOk \in BOOLEAN, resp \in NoteResponses, freshLoopVar \in BOOLEAN :
          LET paragraphs == request.paragraphs.value
              invalid == validateRichNoteParagraphs(paragraphs)
              payload == [body |-> NoteBody(paragraphs, freshLoopVar),
                          settings |-> [autoPublish |-> request.auto_publish,
                                        tags |-> ParsedTags(request.tags)]]
              post == Answered(Request("createNote", 0, payload), resp)
          IN  IF ~clientOk
              THEN ToolReturns(FALSE, <<"create client failed">>)
                   /\ UNCHANGED <<calls, saveTask>>
              ELSE IF request.paragraphs.kind = "absent"
              THEN ToolReturns(FALSE, <<"paragraphs must be a JSON string">>)
                   /\ UNCHANGED <<calls, saveTask>>
              ELSE IF request.paragraphs.kind = "badJSON"
              THEN ToolReturns(FALSE, <<"paragraphs JSON parse error">>)
                   /\ UNCHANGED <<calls, saveTask>>
              ELSE IF invalid /= <<>>
              THEN ToolReturns(FALSE, <<"parameter format error">> \o invalid)
                   /\ UNCHANGED <<calls, saveTask>>
              ELSE IF resp.kind = "transportErr"
              THEN ToolReturns(FALSE, <<"API request failed">>)
                   /\ calls' = Append(calls, post)
                   /\ UNCHANGED saveTask
              ELSE IF resp.status /= 200
              THEN ToolReturns(FALSE, <<"API request failed, status code", ToString(resp.status)>>)
                   /\ calls' = Append(calls, post)
                   /\ UNCHANGED saveTask
              ELSE /\ ToolReturns(TRUE, <<"note created", NoteIDOf(resp),
                                          ToString(Len(paragraphs))>>)
                   /\ calls' = Append(calls, post)
                   \* go func() { SaveNoteToSQLite(noteID, paragraphsStr, "") }()
                   /\ saveTask' = Append(saveTask,
                                         [noteID |-> NoteIDOf(resp), content |-> paragraphs,
                                          summary |-> ""])
    /\ UNCHANGED <<texts, result, blocks, i, doc, ret, request, fileUUID>>
    /\ UNCHANGED <<sqlite, ops>>

EditNote ==
    /\ pc = "idle" /\ request.tool = "edit_note"
    /\ \E clientOk \in BOOLEAN, resp \in NoteResponses :
          LET paragraphs == request.paragraphs.value
              invalid == validateRichNoteParagraphs(paragraphs)
              payload == [note_id |-> request.note_id, paragraphs |-> paragraphs]
              post == Answered(Request("editNote", 0, payload), resp)
          IN  IF ~clientOk
              THEN ToolReturns(FALSE, <<"create client failed">>) /\ UNCHANGED calls
              ELSE IF request.note_id = ""
              THEN ToolReturns(FALSE, <<"note ID must not be empty">>) /\ UNCHANGED calls
              ELSE IF request.paragraphs.kind = "absent"
              THEN ToolReturns(FALSE, <<"paragraphs must be a JSON string">>) /\ UNCHANGED calls
              ELSE IF request.paragraphs.kind = "badJSON"
              THEN ToolReturns(FALSE, <<"paragraphs JSON parse error">>) /\ UNCHANGED calls
              ELSE IF invalid /= <<>>
              THEN ToolReturns(FALSE, <<"parameter format error">> \o invalid)
                   /\ UNCHANGED calls
              ELSE IF resp.kind = "transportErr"
              THEN ToolReturns(FALSE, <<"API request failed">>) /\ calls' = Append(calls, post)
              ELSE IF resp.status /= 200
              THEN ToolReturns(FALSE, <<"API request failed, status code", ToString(resp.status)>>)
                   /\ calls' = Append(calls, post)
              ELSE ToolReturns(TRUE, <<"note edited", request.note_id,
                                       ToString(Len(paragraphs))>>)
                   /\ calls' = Append(calls, post)
    /\ UNCHANGED <<texts, result, blocks, i, doc, ret, request, saveTask, fileUUID>>
    /\ UNCHANGED <<sqlite, ops>>

(***************************************************************************)
(* The requests given to the tools.                                        *)
(***************************************************************************)
ParagraphTexts ==
    { <<>>,
      <<Span("a", FALSE, FALSE, EmptyStr)>>,
      <<Span("", FALSE, FALSE, EmptyStr)>>,
      <<Span("a", TRUE, TRUE, LinkHTTPS), Span("b", FALSE, FALSE, EmptyStr)>>,
      <<Span("a", FALSE, FALSE, EmptyStr), Span("a", FALSE, FALSE, LinkFTP)>>,
      <<Span("a", FALSE, FALSE, LinkHTTPX)>> }

Paragraphs == {Paragraph(ts, t) : ts \in ParagraphTexts, t \in {"", "quote", "image"}}

JSONArg(value) == [kind |-> "json", value |-> value]
BadJSONArg == [kind |-> "badJSON", value |-> <<>>]

ParagraphArgs ==
    {NoArg, BadJSONArg} \cup {JSONArg(ps) : ps \in SeqsUpTo(Paragraphs, MaxParagraphs)}

Requests ==
    {[tool |-> "create_note", paragraphs |-> ps, auto_publish |-> ap, tags |-> tg, note_id |-> ""] :
        ps \in ParagraphArgs, ap \in BOOLEAN, tg \in {NoArg, BadJSONArg, JSONArg(<<"t">>)}}
    \cup
    {[tool |-> "edit_note", paragraphs |-> ps, auto_publish |-> FALSE, tags |-> NoArg,
      note_id |-> id] : ps \in ParagraphArgs, id \in {"", "n1"}}

InitTools ==
    /\ pc = "idle"
    /\ request \in Requests
    /\ toolResult = NoToolResult
    /\ saveTask = <<>>
    /\ fileUUID = ""
    /\ sqlite = NoStore
    /\ ops = NoOps
    /\ calls = <<>>
    /\ texts = <<>>
    /\ result = <<>>
    /\ blocks = <<>>
    /\ i = 0
    /\ doc = NoDoc
    /\ ret = NoRet

NextTools == CreateNote \/ EditNote

SpecTools == InitTools /\ [][NextTools]_vars

(***************************************************************************)
(* The local note store (sqllite.go) and the goroutines that use it: main's *)
(* InitSQLite call, the save started by create_note, a search, and         *)
(* CloseSQLite. sqliteDB is read and written without a lock, so a reader   *)
(* sees the value of whichever write came last: every step below is one    *)
(* access, and the steps of different goroutines interleave freely.        *)
(***************************************************************************)
toolVars == <<pc, texts, result, blocks, i, doc, ret, calls, request, toolResult, saveTask,
              fileUUID>>

\* what the function given to sqliteOnce.Do leaves in sqliteInitErr: nil, or
\* the error of os.Create, sql.Open, db.Ping or the CREATE TABLE statement
InitOutcomes ==
    {<<>>, <<"create empty database file failed">>, <<"open SQLite database failed">>,
     <<"ping failed">>, <<"create table failed">>}

\* InitSQLite on store s: the store it leaves and the error it returns.
\* absOk: filepath.Abs succeeded; outcome: how the function given to
\* sqliteOnce.Do ends if this call is the one that runs it. sqliteDB is
\* assigned only at the end of a run without error.
InitSQLite(s, absOk, outcome) ==
    IF ~absOk THEN [store |-> s, err |-> <<"get working directory failed">>]
    ELSE IF s.once THEN [store |-> s, err |-> s.initErr]
    ELSE [store |-> [s EXCEPT !.once = TRUE,
                              !.runs = @ + 1,
                              !.initErr = outcome,
                              !.db = IF outcome = <<>> THEN "open" ELSE @],
          err |-> outcome]

\* a call on the handle sqliteDB points to (Exec, Query, QueryRow): a nil
\* pointer is dereferenced, a closed handle answers with an error, an open
\* one runs the statement, which succeeds or not
OnHandle(db, statementOk) ==
    IF db = "nil" THEN "panic"
    ELSE IF db = "closed" THEN "error"
    ELSE IF statementOk THEN "ok" ELSE "error"

SetOp(p, at, out) == ops' = [ops EXCEPT ![p] = [pc |-> at, out |-> out]]

\* a nil dereference ended the process
Crashed == \E p \in Procs : ops[p].out = "panic"

\* the first lines of every store operation: `if err := InitSQLite(); err != nil`
BeginOp(p) ==
    \E absOk \in BOOLEAN, outcome \in InitOutcomes :
        LET r == InitSQLite(sqlite, absOk, outcome)
        IN  /\ sqlite' = r.store
            /\ IF r.err /= <<>> THEN SetOp(p, "idle", "error") ELSE SetOp(p, "use", "none")

\* main.go: the InitSQLite call at startup
MainInit ==
    /\ ~Crashed
    /\ ops["main"].pc = "idle" /\ ops["main"].out = "none"
    /\ \E absOk \in BOOLEAN, outcome \in InitOutcomes :
          LET r == InitSQLite(sqlite, absOk, outcome)
          IN  /\ sqlite' = r.store
              /\ SetOp("main", "idle", IF r.err /= <<>> THEN "error" ELSE "ok")
    /\ UNCHANGED toolVars

\* SearchByDate, SearchByDateRange, SearchByCreateDt: InitSQLite ...
SearchBegin ==
    /\ ~Crashed
    /\ ops["search"].pc = "idle"
    /\ BeginOp("search")
    /\ UNCHANGED toolVars

\* ... then sqliteDB.Query / QueryRow
SearchQuery ==
    /\ ~Crashed
    /\ ops["search"].pc = "use"
    /\ \E statementOk \in BOOLEAN : SetOp("search", "idle", OnHandle(sqlite.db, statementOk))
    /\ UNCHANGED <<sqlite, toolVars>>

\* the goroutine create_note starts: SaveNoteToSQLite begins with InitSQLite ...
SaveBegin ==
    /\ ~Crashed
    /\ saveTask /= <<>>
    /\ ops["save"].pc = "idle" /\ ops["save"].out = "none"
    /\ BeginOp("save")
    /\ UNCHANGED toolVars

\* a save whose failure is written into the tool result: what create_note
\* would do if it waited for SaveNoteToSQLite and reported its error
SaveExec_ReportsFailure ==
    /\ ~Crashed
    /\ ops["save"].pc = "use"
    /\ \E statementOk \in BOOLEAN :
          LET task == saveTask[1]
              out == IF task.noteID = "" \/ task.content = <<>>
                     THEN "error"
                     ELSE OnHandle(sqlite.db, statementOk)
          IN  /\ SetOp("save", "idle", out)
              /\ sqlite' = IF out = "ok"
                           THEN [sqlite EXCEPT !.rows = Append(@, task)]
                           ELSE sqlite
              /\ toolResult' = IF out = "ok"
                               THEN toolResult
                               ELSE ToolText(FALSE, <<"save to local cache failed">>)
    /\ UNCHANGED <<pc, texts, result, blocks, i, doc, ret, calls, request, saveTask, fileUUID>>

\* ... then refuses an empty note id or content, and inserts the row with
\* sqliteDB.Exec; the goroutine only logs what SaveNoteToSQLite returned
SaveExec ==
    /\ ~Crashed
    /\ ops["save"].pc = "use"
    /\ \E statementOk \in BOOLEAN :
          LET task == saveTask[1]
              out == IF task.noteID = "" \/ task.content = <<>>
                     THEN "error"
                     ELSE OnHandle(sqlite.db, statementOk)
          IN  /\ SetOp("save", "idle", out)
              /\ sqlite' = IF out = "ok"
                           THEN [sqlite EXCEPT !.rows = Append(@, task)]
                           ELSE sqlite
    /\ UNCHANGED toolVars

\* CloseSQLite: `if sqliteDB != nil` ...
CloseTest ==
    /\ ~Crashed
    /\ ops["close"].pc = "idle" /\ ops["close"].out = "none"
    /\ IF sqlite.db /= "nil" THEN SetOp("close", "close", "none") ELSE SetOp("close", "idle", "ok")
    /\ UNCHANGED <<sqlite, toolVars>>

\* ... `sqliteDB.Close()` ...
CloseClose ==
    /\ ~Crashed
    /\ ops["close"].pc = "close"
    /\ sqlite' = [sqlite EXCEPT !.db = "closed"]
    /\ SetOp("close", "clear", "none")
    /\ UNCHANGED toolVars

\* ... `sqliteDB = nil`
CloseClear ==
    /\ ~Crashed
    /\ ops["close"].pc = "clear"
    /\ sqlite' = [sqlite EXCEPT !.db = "nil"]
    /\ SetOp("close", "idle", "ok")
    /\ UNCHANGED toolVars

\* create_note requests: paragraphs missing, unparsable, invalid and valid
StoreRequests ==
    {[tool |-> "create_note", paragraphs |-> ps, auto_publish |-> FALSE, tags |-> NoArg,
      note_id |-> ""] :
        ps \in {NoArg, BadJSONArg} \cup {JSONArg(p) : p \in SeqsUpTo(Paragraphs, 1)}}

InitStore ==
    /\ pc = "idle"
    /\ request \in StoreRequests
    /\ toolResult = NoToolResult
    /\ saveTask = <<>>
    /\ fileUUID = ""
    /\ sqlite = NoStore
    /\ ops = NoOps
    /\ calls = <<>>
    /\ texts = <<>>
    /\ result = <<>>
    /\ blocks = <<>>
    /\ i = 0
    /\ doc = NoDoc
    /\ ret = NoRet

NextStore ==
    \/ CreateNote
    \/ MainInit
    \/ SaveBegin
    \/ SaveExec
    \/ SearchBegin
    \/ SearchQuery
    \/ CloseTest
    \/ CloseClose
    \/ CloseClear

SpecStore == InitStore /\ [][NextStore]_vars

(***************************************************************************)
(* Claims about the text/mark converter, checked under SpecTexts.          *)
(***************************************************************************)
MarkRank(t) == CASE t = "bold" -> 1 [] t = "highlight" -> 2 [] t = "link" -> 3 [] OTHER -> 0

HasMark(ms, t) == \E j \in DOMAIN ms : ms[j].type = t

\* C7: every emitted mark list is in the fixed order bold, highlight, link; it
\* holds a bold mark exactly when the span's bold flag is set, a highlight mark
\* exactly when its highlight flag is set and a link mark exactly when its link
\* is non-empty; the link mark carries href = the span's link and the bold and
\* highlight marks carry no attributes.
C7_MarksFollowFlagsInFixedOrder ==
    pc = "textsDone" =>
        \A k \in DOMAIN result \cap DOMAIN texts :
            LET ms == result[k].marks
                t  == texts[k]
            IN  /\ HasMark(ms, "bold") <=> t.Bold
                /\ HasMark(ms, "highlight") <=> t.Highlight
                /\ HasMark(ms, "link") <=> (t.Link /= EmptyStr)
                /\ \A j \in DOMAIN ms : MarkRank(ms[j].type) > 0
                /\ \A j1, j2 \in DOMAIN ms :
                       j1 < j2 => MarkRank(ms[j1].type) < MarkRank(ms[j2].type)
                /\ \A j \in DOMAIN ms :
                       IF ms[j].type = "link"
                       THEN ms[j].attrs = [href |-> t.Link]
                       ELSE DOMAIN ms[j].attrs = {}

\* A span with bold, highlight and an https link was converted to three marks.
C7_Witness ==
    /\ pc = "textsDone"
    /\ \E k \in DOMAIN texts :
           /\ texts[k].Bold /\ texts[k].Highlight /\ texts[k].Link = LinkHTTPS
           /\ Len(result[k].marks) = 3
           /\ result[k].marks[3].attrs = [href |-> LinkHTTPS]

\* C8: one text node of kind `text` per span, in input order, with the span's
\* text unchanged, nothing filtered or merged; a span with no bold, highlight
\* or link gets an empty mark list.
C8_OneTextNodePerSpanInOrder ==
    pc = "textsDone" =>
        /\ Len(result) = Len(texts)
        /\ \A k \in DOMAIN result :
               /\ result[k].type = "text"
               /\ result[k].text = texts[k].Text
               /\ (~texts[k].Bold /\ ~texts[k].Highlight /\ texts[k].Link = EmptyStr)
                      => result[k].marks = <<>>

\* Two unmarked spans, the first with empty text, were converted to two nodes.
C8_Witness ==
    /\ pc = "textsDone"
    /\ Len(texts) = 2
    /\ texts[1].Text = "" /\ texts[2].Text = "a"
    /\ \A k \in DOMAIN texts :
           ~texts[k].Bold /\ ~texts[k].Highlight /\ texts[k].Link = EmptyStr
    /\ Len(result) = 2
    /\ result[1].text = "" /\ result[2].text = "a"

(***************************************************************************)
(* Claims about ConvertToMowenFormat, checked under Spec.                  *)
(***************************************************************************)
Succeeded == pc = "done" /\ ret.err = <<>>
Failed == pc = "done" /\ ret.err /= <<>>

\* a paragraph block without spans gives a node equal to the separator
LooksLikeSeparator(block) == BlockKind(block) = "paragraph" /\ block.Texts = <<>>

\* C1: a successfully converted list of n >= 1 blocks holds exactly n-1
\* separators, one between the nodes of each two adjacent blocks and none
\* before the first or after the last node, whatever the kinds of the blocks
\* (stated for lists whose own nodes are distinguishable from a separator).
C1_SeparatorsOnlyBetweenBlocks ==
    (/\ Succeeded
     /\ Len(blocks) >= 1
     /\ \A k \in DOMAIN blocks : ~LooksLikeSeparator(blocks[k]))
    => LET c == ret.doc.content
       IN  /\ Cardinality({j \in DOMAIN c : c[j] = Separator}) = Len(blocks) - 1
           /\ c /= <<>> => (c[1] /= Separator /\ c[Len(c)] /= Separator)
           /\ \A j \in DOMAIN c : j < Len(c) => ~(c[j] = Separator /\ c[j + 1] = Separator)

\* C2: converting an empty block list never returns success.
C2_EmptyListIsRejected ==
    (pc = "done" /\ Len(blocks) = 0) => ret.err /= <<>>

\* C3: when the conversion fails, no node accumulated so far (block node or
\* separator) is returned together with the error.
C3_NoPartialDocumentWithError ==
    Failed => ret.doc.content = <<>>

\* C4: a returned failure carries the position of the block whose conversion
\* failed (as the 0-based index or as the 1-based ordinal).
C4_FailureCarriesBlockPosition ==
    Failed => \E k \in DOMAIN ret.err : ret.err[k] \in {ToString(i - 1), ToString(i)}

\* the kind of node each block type must give
ExpectedKind(block) ==
    IF block.Type = "quote" THEN "quote"
    ELSE IF block.Type = "note" THEN "note"
    ELSE IF block.Type = "file" THEN block.FileType
    ELSE "paragraph"

\* blocks that give a node: all but file blocks of no supported file type
GivesNode(block) == ~(block.Type = "file" /\ block.FileType \notin {"image", "audio", "pdf"})

\* where the node of block k lies: after the k-1 separators of the blocks up
\* to k and the nodes of the node-giving blocks before it
NodePos(k) == (k - 1) + Cardinality({j \in 1..k : GivesNode(blocks[j])})

SameSpans(content, ts) ==
    /\ Len(content) = Len(ts)
    /\ \A j \in DOMAIN ts : content[j].text = ts[j].Text

\* C6: in a successfully converted document the block nodes lie in the order
\* of the caller's blocks, each of the kind its type dispatches to (quote,
\* note, the file type of an image/audio/pdf file block, paragraph for every
\* other type), quote and paragraph nodes holding the block's converted
\* spans; every other node is a separator.
C6_NodesInBlockOrderWithDispatchedKind ==
    Succeeded =>
        LET c == ret.doc.content
            nodeAt == {NodePos(k) : k \in {j \in DOMAIN blocks : GivesNode(blocks[j])}}
        IN  /\ \A k \in DOMAIN blocks : GivesNode(blocks[k]) =>
                   /\ NodePos(k) \in DOMAIN c
                   /\ c[NodePos(k)].type = ExpectedKind(blocks[k])
                   /\ ExpectedKind(blocks[k]) \in {"quote", "paragraph"}
                          => SameSpans(c[NodePos(k)].content, blocks[k].Texts)
            /\ \A j \in DOMAIN c : j \notin nodeAt => c[j] = Separator

\* A quote, a note, an image and an untyped block were converted in this order.
C6_Witness ==
    /\ Succeeded
    /\ Len(blocks) = 3
    /\ blocks[1].Type = "quote" /\ blocks[1].Texts /= <<>>
    /\ blocks[2].Type = "file" /\ blocks[2].FileType = "image"
    /\ blocks[3].Type = "" /\ blocks[3].Texts /= <<>>
    /\ Len(ret.doc.content) = 5
    /\ ret.doc.content[1].type = "quote"
    /\ ret.doc.content[3].type = "image"
    /\ ret.doc.content[5].type = "paragraph"

\* the requests issued so far are in block order and none is ahead of the loop
CallsInBlockOrder ==
    /\ \A k \in DOMAIN calls : calls[k].block >= 1 /\ calls[k].block <= i
    /\ \A j, k \in DOMAIN calls : j < k => calls[j].block <= calls[k].block

\* the conversion has ended in a failure (an error or a panic)
Stopped == ret.err /= <<>> \/ pc = "panic"

\* C5: remote calls are issued in non-decreasing block order, and once a
\* block has failed no further remote call is issued, no node is produced and
\* the loop does not move on.
C5_SequentialAndStopsAtFirstFailure ==
    /\ [](CallsInBlockOrder)
    /\ [][Stopped => (calls' = calls /\ doc' = doc /\ i' = i)]_vars

\* The second block's prepare call failed after the first block's URL upload;
\* a third block is left unconverted.
C5_Witness ==
    /\ Failed
    /\ Len(blocks) = 3 /\ i = 2
    /\ blocks[3].Type = "file" /\ BlockKind(blocks[3]) \in MediaKinds
    /\ Len(calls) = 2
    /\ calls[1].op = "uploadByURL" /\ calls[1].block = 1
    /\ calls[2].op = "prepare" /\ calls[2].block = 2

\* a media block the data model does not recognise
Unrecognized(block) ==
    /\ block.Type = "file"
    /\ \/ block.FileType \notin {"image", "audio", "pdf"}
       \/ block.SourceType \notin {"local", "url"}

\* C10: a media block of unrecognised media kind or source kind makes the
\* conversion fail with a validation error: the conversion never succeeds
\* past one and never issues a remote call for one.
C10_UnrecognizedMediaIsRejected ==
    /\ Succeeded => \A k \in DOMAIN blocks : ~Unrecognized(blocks[k])
    /\ \A k \in DOMAIN calls : ~Unrecognized(blocks[calls[k].block])

(***************************************************************************)
(* Claims about the tools, checked under SpecTools.                        *)
(***************************************************************************)
\* a link that is present and begins with neither http:// nor https://
BadLink(link) ==
    /\ link /= EmptyStr
    /\ ~HasPrefix(link, <<"h", "t", "t", "p", ":", "/", "/">>)
    /\ ~HasPrefix(link, <<"h", "t", "t", "p", "s", ":", "/", "/">>)

\* the call ended before validateRichNoteParagraphs ran
RejectedBeforeValidation ==
    toolResult.text[1] \in {"create client failed", "note ID must not be empty",
                            "paragraphs must be a JSON string", "paragraphs JSON parse error"}

\* C9: a request holding a span whose link is present without an http:// or
\* https:// scheme issues no remote call; once it reaches validation it ends in
\* a validation error, and a link error names the paragraph and the span of
\* such a span.
C9_NonHTTPLinkRejectedBeforeAnyCall ==
    LET ps == request.paragraphs.value
        bad == UNION {{<<k, j>> : j \in {x \in DOMAIN ps[k].Texts : BadLink(ps[k].Texts[x].Link)}} :
                         k \in DOMAIN ps}
    IN  (pc = "toolDone" /\ bad /= {}) =>
            /\ calls = <<>>
            /\ ~RejectedBeforeValidation =>
                  /\ ~toolResult.ok
                  /\ toolResult.text[1] = "parameter format error"
                  /\ toolResult.text[2] = "link of text node must be a valid URL" =>
                        \E b \in bad : /\ toolResult.text[3] = ToString(b[1])
                                       /\ toolResult.text[4] = ToString(b[2])


(***************************************************************************)
(* Note references.                                                        *)
(***************************************************************************)
\* block k has been through the loop body and the loop went on
Converted(k) == k \in DOMAIN blocks /\ k < i /\ pc \in {"convert", "done", "panic"}

CallsOf(k) == {n \in DOMAIN calls : calls[n].block = k}

\* C11: every converted note-reference block with identifier X has given
\* exactly one node, of kind note, whose attributes are exactly {uuid: X} and
\* which has no content, and no remote call was issued for it.
C11_NoteNodeHasOnlyItsUuidAndNoCall ==
    /\ \A k \in DOMAIN blocks : (Converted(k) /\ blocks[k].Type = "note") =>
          /\ NodePos(k) \in DOMAIN doc.content
          /\ doc.content[NodePos(k)] =
                 [type |-> "note", content |-> <<>>, attrs |-> [uuid |-> blocks[k].NoteID]]
          /\ CallsOf(k) = {}
    /\ Cardinality({j \in DOMAIN doc.content : doc.content[j].type = "note"})
           = Cardinality({k \in DOMAIN blocks : Converted(k) /\ blocks[k].Type = "note"})

\* A note reference was converted after an image that was uploaded by URL.
C11_Witness ==
    /\ Succeeded
    /\ Len(blocks) = 2
    /\ blocks[1].Type = "file" /\ blocks[1].FileType = "image"
    /\ blocks[2].Type = "note" /\ blocks[2].NoteID = "abc123"
    /\ Len(calls) = 1 /\ calls[1].block = 1
    /\ ret.doc.content[3].type = "note"

(***************************************************************************)
(* Media nodes and their attributes.                                       *)
(***************************************************************************)
LastNode == doc.content[Len(doc.content)]

\* the loop body has just appended the node of a file block of this kind:
\* the block before the loop index is such a block and nothing has failed
MediaJustEmitted(kind) ==
    /\ pc \in {"convert", "done"} /\ ~Stopped
    /\ i > 1 /\ i - 1 \in DOMAIN blocks
    /\ blocks[i - 1].Type = "file" /\ blocks[i - 1].FileType = kind

\* C12 as stated: the node of an audio block resolved to identifier F is one
\* audio node whose attributes are audio-uuid = F and every metadata entry,
\* the entry of key show_note under the key show-note and every other entry
\* under its own key; no attribute is named show_note.
C12_AudioAttrsRenameShowNote ==
    MediaJustEmitted("audio") =>
        LET md == blocks[i - 1].Metadata
            a == LastNode.attrs
        IN  /\ Len(doc.content) = NodePos(i - 1)
            /\ LastNode.type = "audio"
            /\ "show_note" \notin DOMAIN a
            /\ DOMAIN a = {"audio-uuid"} \cup (DOMAIN md \ {"show_note"})
                              \cup (IF "show_note" \in DOMAIN md THEN {"show-note"} ELSE {})
            /\ a["audio-uuid"] = fileUUID
            /\ \A key \in DOMAIN md :
                  IF key = "show_note" THEN a["show-note"] = md[key] ELSE a[key] = md[key]

\* C12, amended: the node of an audio block resolved to identifier F is one
\* audio node whose attribute keys are audio-uuid and the metadata keys with
\* show_note replaced by show-note, so no attribute is named show_note; every
\* metadata entry of another key than show_note and show-note is held under
\* its own key, show-note holds the value of the metadata's show_note or
\* show-note entry (of either one when the metadata has both), and audio-uuid
\* is F unless the metadata has an entry of that key, whose value it then is.
C12_AudioAttrsRenameShowNoteUnlessKeysCollide ==
    MediaJustEmitted("audio") =>
        LET md == blocks[i - 1].Metadata
            a == LastNode.attrs
            shown == DOMAIN md \cap {"show_note", "show-note"}
        IN  /\ Len(doc.content) = NodePos(i - 1)
            /\ LastNode.type = "audio"
            /\ "show_note" \notin DOMAIN a
            /\ DOMAIN a = {"audio-uuid"} \cup (DOMAIN md \ {"show_note"})
                              \cup (IF "show_note" \in DOMAIN md THEN {"show-note"} ELSE {})
            /\ a["audio-uuid"] = IF "audio-uuid" \in DOMAIN md THEN md["audio-uuid"] ELSE fileUUID
            /\ \A key \in DOMAIN md \ ({"audio-uuid"} \cup shown) : a[key] = md[key]
            /\ shown /= {} => a["show-note"] \in {md[key] : key \in shown}

\* A local audio file resolved to f1 with metadata {show_note: hi, title: t}
\* gave the attributes {audio-uuid: f1, show-note: hi, title: t}.
C12_Witness ==
    /\ MediaJustEmitted("audio")
    /\ blocks[i - 1].Metadata = MetaShowTitle
    /\ fileUUID = "f1"
    /\ LastNode.attrs = ("audio-uuid" :> "f1") @@ ("show-note" :> "hi") @@ [title |-> "t"]

\* C13: an upload answer with an accepted status whose body is absent or
\* lacks file.fileId makes the resolver return a failure: the conversion
\* never crashes, and no media node is emitted for an empty identifier.
C13_MissingFileIdIsAFailure ==
    /\ pc /= "panic"
    /\ \A kind \in MediaKinds : MediaJustEmitted(kind) => fileUUID /= ""

(***************************************************************************)
(* The note body the tools send.                                           *)
(***************************************************************************)
RECURSIVE ConvertedTextBlocks(_, _)
\* doc.Content after ConvertToMowenFormat's loop has handled the first n of
\* the text paragraphs ps: the separator when i > 0, then the quote or
\* paragraph node with the converted spans
ConvertedTextBlocks(ps, n) ==
    IF n = 0 THEN <<>>
    ELSE LET before == ConvertedTextBlocks(ps, n - 1)
             block == TextBlock(ps[n].Type, ps[n].Texts)
         IN  Append(IF n > 1 THEN Append(before, Separator) ELSE before,
                    MowenContentNode(BlockKind(block),
                                     convertTextsToMowenFormat(block.Texts), NoAttrs))

\* the document ConvertToMowenFormat returns for the text paragraphs ps
ConvertedDocument(ps) == [type |-> "doc", content |-> ConvertedTextBlocks(ps, Len(ps))]

\* C14: every request create_note or edit_note sends carries a body equal to
\* the document the conversion engine gives for the caller's paragraphs
\* (root doc, one node per paragraph, a separator between adjacent
\* paragraphs), next to a settings object.
C14_BodyIsTheConvertedDocument ==
    \A n \in DOMAIN calls : calls[n].op \in {"createNote", "editNote"} =>
        LET payload == calls[n].payload
        IN  /\ {"body", "settings"} \subseteq DOMAIN payload
            /\ payload.body = ConvertedDocument(request.paragraphs.value)

(***************************************************************************)
(* The remote calls of the two resolver flows.                             *)
(***************************************************************************)
OpsOf(k, op) == {n \in CallsOf(k) : calls[n].op = op}

\* C15: in the local-path flow every multipart upload directly follows the
\* prepare call of the same block, and that prepare call was answered with
\* the success status (so without a transport error); a block has at most
\* one prepare call and at most one upload; after a prepare call that was
\* not answered with the success status the block has no upload.
C15_UploadOnlyAfterItsPrepareSucceeded ==
    /\ \A n \in DOMAIN calls : calls[n].op = "upload" =>
          /\ n > 1
          /\ calls[n - 1].op = "prepare"
          /\ calls[n - 1].block = calls[n].block
          /\ calls[n - 1].status = 200
    /\ \A k \in DOMAIN blocks :
          /\ Cardinality(OpsOf(k, "prepare")) <= 1
          /\ Cardinality(OpsOf(k, "upload")) <= 1
          /\ (\E n \in OpsOf(k, "prepare") : calls[n].status /= 200) => OpsOf(k, "upload") = {}

\* Two local files were each prepared and then uploaded, one after the other.
C15_Witness ==
    /\ Succeeded
    /\ Len(blocks) = 2
    /\ Len(calls) = 4
    /\ <<calls[1].op, calls[2].op, calls[3].op, calls[4].op>>
           = <<"prepare", "upload", "prepare", "upload">>
    /\ <<calls[1].block, calls[2].block, calls[3].block, calls[4].block>> = <<1, 1, 2, 2>>

\* the loop body has run for block k: it went on, or the conversion ended there
Handled(k) == Converted(k) \/ (k \in DOMAIN blocks /\ k = i /\ Stopped)

URLMedia(block) ==
    block.Type = "file" /\ block.FileType \in {"image", "audio", "pdf"} /\ block.SourceType = "url"

\* C16: a media block with source type url has, once handled, exactly one
\* remote call, the URL upload (so neither a prepare call nor a multipart
\* upload); the call carries the code of the declared kind (image 1, audio 2,
\* pdf 3); if it was answered with any status but success, the conversion
\* ended at that block with an error and the call was not repeated.
C16_URLFlowIsOneCallWithDeclaredKind ==
    \A k \in DOMAIN blocks : (Handled(k) /\ URLMedia(blocks[k])) =>
        /\ Cardinality(CallsOf(k)) = 1
        /\ \A n \in CallsOf(k) :
              /\ calls[n].op = "uploadByURL"
              /\ calls[n].payload.fileType =
                     (CASE blocks[k].FileType = "image" -> 1
                        [] blocks[k].FileType = "audio" -> 2
                        [] blocks[k].FileType = "pdf" -> 3)
              /\ calls[n].payload.url = blocks[k].SourcePath
              /\ calls[n].status /= 200 => (Failed /\ i = k /\ n = Len(calls))

\* An audio and a pdf were uploaded by URL, one call each, codes 2 and 3.
C16_Witness ==
    /\ Succeeded
    /\ Len(blocks) = 2
    /\ URLMedia(blocks[1]) /\ blocks[1].FileType = "audio"
    /\ URLMedia(blocks[2]) /\ blocks[2].FileType = "pdf"
    /\ Len(calls) = 2
    /\ calls[1].payload.fileType = 2 /\ calls[2].payload.fileType = 3

LocalMedia(block) ==
    block.Type = "file" /\ block.FileType \in {"image", "audio", "pdf"} /\ block.SourceType /= "url"

\* the code the extension of each path stands for; 0 for none (a.png, b.MP3,
\* u/d.pdf; e.txt and c, without extension, have none)
ExtensionCode(path) ==
    CASE path = PathPNG -> 1
      [] path = PathMP3 -> 2
      [] path = PathPDFURL -> 3
      [] OTHER -> 0

\* C17: a local media block is prepared with the code of its path's
\* extension, compared without regard to case, whatever kind was declared,
\* and its node has the declared kind; a path whose extension stands for no
\* code ends the conversion at that block with no remote call.
C17_PrepareCodeFollowsExtension ==
    \A k \in DOMAIN blocks : (Handled(k) /\ LocalMedia(blocks[k])) =>
        LET code == ExtensionCode(blocks[k].SourcePath)
        IN  /\ code = 0 => (CallsOf(k) = {} /\ Failed /\ i = k)
            /\ code /= 0 =>
                  /\ OpsOf(k, "prepare") /= {}
                  /\ \A n \in OpsOf(k, "prepare") : calls[n].payload.fileType = code
            /\ Converted(k) => doc.content[NodePos(k)].type = blocks[k].FileType

\* A block declared image whose path ends in .MP3 was prepared with code 2
\* and gave an image node.
C17_Witness ==
    /\ Succeeded
    /\ blocks = <<FileBlock("image", "local", PathMP3, NoAttrs)>>
    /\ calls[1].op = "prepare" /\ calls[1].payload.fileType = 2
    /\ ret.doc.content[1].type = "image"

\* the n-th logged call is the m-th prepare call of the log
PrepareOrdinal(n) == Cardinality({m \in 1..n : calls[m].op = "prepare"})

\* C18: every multipart upload carries the form of the upload session the
\* prepare call of its own block opened (the call right before it), and no
\* two uploads carry the same session: a session is used at most once and
\* never for another block.
C18_UploadUsesItsOwnFreshSession ==
    /\ \A n \in DOMAIN calls : calls[n].op = "upload" =>
          /\ n > 1
          /\ calls[n - 1].op = "prepare" /\ calls[n - 1].block = calls[n].block
          /\ calls[n].payload.form
                 = [endpoint |-> "oss", policy |-> ToString(PrepareOrdinal(n - 1))]
    /\ \A m, n \in DOMAIN calls :
          (calls[m].op = "upload" /\ calls[n].op = "upload" /\ m /= n)
              => calls[m].payload.form /= calls[n].payload.form

\* Two local files were uploaded, the first in session 1 and the second in
\* session 2.
C18_Witness ==
    /\ Succeeded
    /\ Len(blocks) = 2 /\ LocalMedia(blocks[1]) /\ LocalMedia(blocks[2])
    /\ Len(calls) = 4
    /\ calls[2].op = "upload" /\ calls[2].payload.form.policy = "1"
    /\ calls[4].op = "upload" /\ calls[4].payload.form.policy = "2"

(***************************************************************************)
(* File blocks of a file type that is not image, audio or pdf.             *)
(***************************************************************************)
Dropped(block) == block.Type = "file" /\ block.FileType \notin {"image", "audio", "pdf"}

\* C19: a file block whose file type is none of image, audio, pdf never ends
\* the conversion and has no remote call and no node; when it is not the
\* first block its separator is still appended (for such a block NodePos is
\* the place of that separator). The separator of the next block, once
\* handled, lies right behind it, and when the block is the last one the
\* returned content ends with its separator.
C19_UnsupportedFileTypeLeavesOnlyItsSeparator ==
    \A k \in DOMAIN blocks : (Handled(k) /\ Dropped(blocks[k])) =>
        /\ Converted(k)
        /\ CallsOf(k) = {}
        /\ (pc = "convert" /\ i = k + 1) => Len(doc.content) = NodePos(k)
        /\ k > 1 =>
              /\ NodePos(k) \in DOMAIN doc.content
              /\ doc.content[NodePos(k)] = Separator
              /\ (k + 1 \in DOMAIN blocks /\ Handled(k + 1)) =>
                     /\ NodePos(k) + 1 \in DOMAIN doc.content
                     /\ doc.content[NodePos(k) + 1] = Separator
              /\ (k = Len(blocks) /\ Succeeded) =>
                     /\ Len(ret.doc.content) = NodePos(k)
                     /\ ret.doc.content[NodePos(k)] = Separator

\* A file block of type video between two paragraphs left two adjacent
\* separators between their nodes.
C19_Witness ==
    /\ Succeeded
    /\ Len(blocks) = 3
    /\ BlockKind(blocks[1]) = "paragraph" /\ blocks[1].Texts /= <<>>
    /\ Dropped(blocks[2]) /\ blocks[2].FileType = "video"
    /\ BlockKind(blocks[3]) = "paragraph" /\ blocks[3].Texts /= <<>>
    /\ Len(ret.doc.content) = 4
    /\ ret.doc.content[2] = Separator /\ ret.doc.content[3] = Separator
    /\ calls = <<>>

\* the key of the identifier attribute of a media node of this kind
IdentifierKey(kind) == IF kind = "audio" THEN "audio-uuid" ELSE "uuid"

\* C20 as stated: the identifier attribute of every emitted media node (uuid
\* for image and pdf, audio-uuid for audio) is the identifier the resolver
\* returned for the block, whatever keys the metadata has.
C20_IdentifierIsTheResolvedOne ==
    \A kind \in MediaKinds : MediaJustEmitted(kind) =>
        /\ LastNode.type = kind
        /\ IdentifierKey(kind) \in DOMAIN LastNode.attrs
        /\ LastNode.attrs[IdentifierKey(kind)] = fileUUID

\* C20, amended: the identifier attribute of every emitted media node is the
\* identifier the resolver returned for the block unless the block's
\* metadata has an entry under that very key (uuid for image and pdf,
\* audio-uuid for audio): then it is that entry's value.
C20_IdentifierUnlessMetadataNamesIt ==
    \A kind \in MediaKinds : MediaJustEmitted(kind) =>
        LET md == blocks[i - 1].Metadata
            key == IdentifierKey(kind)
        IN  /\ LastNode.type = kind
            /\ key \in DOMAIN LastNode.attrs
            /\ LastNode.attrs[key] = IF key \in DOMAIN md THEN md[key] ELSE fileUUID

\* An image resolved to f1 whose metadata is {uuid: evil} gave a node with
\* uuid evil.
C20_Witness ==
    /\ MediaJustEmitted("image")
    /\ blocks[i - 1].Metadata = MetaUUID
    /\ fileUUID = "f1"
    /\ LastNode.attrs = [uuid |-> "evil"]

(***************************************************************************)
(* Claims about the local note store                                       *)
(***************************************************************************)
\* the remote create call was answered with status 200
RemoteCreated ==
    \E k \in 1..Len(calls) : calls[k].op = "createNote" /\ calls[k].status = 200

\* the background save exists: it was handed a task, has started, or wrote
SaveStarted ==
    \/ saveTask /= <<>>
    \/ ops["save"] /= NoOps["save"]
    \/ sqlite.rows /= <<>>

\* C21: create_note hands a record to the local note cache only after the
\* remote create call returned status 200 (a call that fails at client
\* creation, argument parsing, validation, transport or with another status
\* starts no save and writes no row), every row written is the record of
\* that call, and once the handler has returned its result no step of the
\* background save, whether it succeeds or fails, changes that result.
C21_CacheWriteOnlyAfterRemoteSuccess ==
    /\ [](/\ SaveStarted => (RemoteCreated /\ toolResult.ok /\ pc = "toolDone")
          /\ \A r \in 1..Len(sqlite.rows) :
                /\ saveTask /= <<>>
                /\ sqlite.rows[r] = saveTask[1])
    /\ [][pc = "toolDone" => toolResult' = toolResult]_vars

\* the save of a created note wrote its row after the tool result was given
C21_Witness ==
    /\ sqlite.rows /= <<>>
    /\ RemoteCreated
    /\ toolResult.ok

\* C22: under every interleaving of InitSQLite, CloseSQLite, the searches
\* and the background save, no store operation dereferences a nil handle,
\* the handle is non-nil whenever InitSQLite returns no error (it has run
\* and left no error), and the function given to sqliteOnce.Do runs at most
\* once.
C22_HandleUsedOnlyWhenOpen ==
    /\ ~Crashed
    /\ (sqlite.once /\ sqlite.initErr = <<>>) => sqlite.db /= "nil"
    /\ sqlite.runs <= 1
====
